---- MODULE Spec2Model ----
(***************************************************************************)
(* comgen: natural language -> shell command, with a confirm/edit/skip     *)
(* gate in front of system().                                              *)
(*                                                                         *)
(* The repository holds two builds of the program:                         *)
(*   "comgen2"  src/comgen.c lines 1-617 ("comgen 2.0": dynamic            *)
(*              StringBuffer, persistent curl handle, /q and /ls), in its  *)
(*              non-_WIN32 branch                                          *)
(*   "comgen1"  src/unnamed/part_002 (static buffers, /q /quit /h /help    *)
(*              /ls)                                                       *)
(* The variable build selects one of them for a whole run.  C strings are  *)
(* sequences of one-character strings; a char* that may be NULL is the     *)
(* empty tuple (NULL) or a one-element tuple holding the string.           *)
(***************************************************************************)
EXTENDS Naturals, Integers, Sequences, FiniteSets, TLC

\* ------------------------------------------------------------------ bounds
\* Length of the long request line the user may type.
LongLineLen == 300
\* Longest string the round-trip specification enumerates.
MaxStrLen == 3
\* Longest text before the newline of a line typed at the confirmation prompt.
MaxGateLen == 2
\* Number of entries of the large directory used by /ls.
BigDirEntries == 51
\* Number of chunks one transfer hands to the write callback.
MaxChunks == 4
\* Largest number of entries of a directory listed by capture_ls_output.
MaxDirEntries == 60

\* ------------------------------------------------------- program constants
HEAD_SIZE == 512
CTX_BUF_SIZE == 2048
LS_ENTRY_LIMIT == 50
MAX_PROMPT == 4096
MAX_RESPONSE == 65536
MAX_CMD == 8192
MAX_SYSTEM_PROMPT == 65536
MAX_LS_OUTPUT == 16384
ERROR_TAG_LEN == 6

\* ------------------------------------------------------------ C strings
NULL == <<>>
Ptr(s) == <<s>>
Deref(p) == p[1]

Min(a, b) == IF a < b THEN a ELSE b

Take(s, n) == SubSeq(s, 1, Min(Len(s), n))

\* snprintf(buf, size, ...) keeps at most size-1 characters of the text.
snprintf(size, text) == Take(text, size - 1)

\* n copies of the character c
Repeat(c, n) == [i \in 1..n |-> c]

\* strstr: index of the first occurrence of needle in hay, 0 when absent
MatchAt(hay, needle, i) ==
    /\ i + Len(needle) - 1 <= Len(hay)
    /\ SubSeq(hay, i, i + Len(needle) - 1) = needle

strstr(hay, needle) ==
    LET hits == {i \in 1..Len(hay) : MatchAt(hay, needle, i)}
    IN  IF hits = {} THEN 0 ELSE CHOOSE i \in hits : \A j \in hits : i <= j

\* strchr from position from: index of the first c at or after from, else 0
strchr(s, from, c) ==
    LET hits == {i \in from..Len(s) : s[i] = c}
    IN  IF hits = {} THEN 0 ELSE CHOOSE i \in hits : \A j \in hits : i <= j

\* strncmp(s, tag, Len(tag)) == 0
strncmp_eq(s, tag, n) == Take(s, n) = Take(tag, n)

QUOTE == "\""
BSLASH == "\\"
NL == "\n"
CR == "\r"
TAB == "\t"

TEXT_MARKER == <<"\"","t","e","x","t","\"",":">>
ERROR_TAG == <<"E","R","R","O","R",":">>

\* --------------------------------------------------------- json_escape
\* One source character as json_escape writes it (both builds agree).
EscapeChar(c) ==
    IF c = QUOTE \/ c = BSLASH THEN <<BSLASH, c>>
    ELSE IF c = NL THEN <<BSLASH, "n">>
    ELSE IF c = CR THEN <<BSLASH, "r">>
    ELSE IF c = TAB THEN <<BSLASH, "t">>
    ELSE <<c>>

\* comgen2: the loop appends EscapeChar of every character to a growing
\* buffer.  Computed by halving so that long strings stay within the
\* evaluator's stack; the result is the left-to-right concatenation.
RECURSIVE json_escape(_)
json_escape(src) ==
    IF Len(src) = 0 THEN <<>>
    ELSE IF Len(src) = 1 THEN EscapeChar(src[1])
    ELSE LET h == Len(src) \div 2
         IN  json_escape(SubSeq(src, 1, h)) \o json_escape(SubSeq(src, h + 1, Len(src)))

\* comgen1: json_escape(src, dst, dstlen) stops at the first character
\* reached with j >= dstlen - 2 (j = characters written so far).
json_escape_n(src, dstlen) ==
    LET n == Len(src)
        fits(k) == k = 0 \/ Len(json_escape(SubSeq(src, 1, k - 1))) < dstlen - 2
    IN  IF fits(n) THEN json_escape(src)
        ELSE LET k == CHOOSE k \in 0..n : fits(k) /\ ~fits(k + 1)
             IN  json_escape(SubSeq(src, 1, k))

\* ------------------------------------------------------- extract_content
\* comgen2 scan loop (src/comgen.c 247-268).  p is the 1-based position,
\* acc the buffer.  Reading position Len(json)+1 is reading the NUL.  The
\* result records whether the scan stepped past the terminating NUL
\* (a backslash as the last character: p++ twice).
RECURSIVE Scan2(_, _, _)
Scan2(json, p, acc) ==
    IF p > Len(json) THEN [text |-> acc, over |-> FALSE]
    ELSE IF json[p] = QUOTE /\ json[p - 1] # BSLASH THEN [text |-> acc, over |-> FALSE]
    ELSE IF json[p] = BSLASH THEN
        IF p + 1 > Len(json) THEN [text |-> acc, over |-> TRUE]
        ELSE LET c == json[p + 1]
                 d == IF c = "n" THEN NL ELSE IF c = "t" THEN TAB
                      ELSE IF c = "r" THEN CR ELSE c
             IN  Scan2(json, p + 2, Append(acc, d))
    ELSE Scan2(json, p + 1, Append(acc, json[p]))

\* Position just after the opening quote that follows the marker, 0 if the
\* marker or the quote is missing (both builds, strstr + strchr + p++).
ContentStart(json) ==
    LET m == strstr(json, TEXT_MARKER)
    IN  IF m = 0 THEN 0
        ELSE LET q == strchr(json, m + Len(TEXT_MARKER), QUOTE)
             IN  IF q = 0 THEN 0 ELSE q + 1

\* What follows the buffer when the scan runs past its NUL: the bytes are
\* whatever the heap holds, so the scan may stop at once or pick up text.
HeapGarbage == {<<>>, <<"x">>}

\* Faulty extract_content: an empty string instead of NULL when the marker
\* or the opening quote is missing.
extract_content_never_null(json) ==
    LET s == ContentStart(json)
    IN  IF s = 0 THEN {Ptr(<<>>)}
        ELSE LET r == Scan2(json, s, <<>>)
             IN  IF r.over THEN {Ptr(r.text \o g) : g \in HeapGarbage}
                 ELSE {Ptr(r.text)}

\* comgen2 extract_content: the set of results the build can produce.
extract_content(json) ==
    LET s == ContentStart(json)
    IN  IF s = 0 THEN {NULL}
        ELSE LET r == Scan2(json, s, <<>>)
             IN  IF r.over THEN {Ptr(r.text \o g) : g \in HeapGarbage}
                 ELSE {Ptr(r.text)}

\* comgen1 scan loop (part_002 169-184) into static content[MAX_CMD].
RECURSIVE Scan1(_, _, _)
Scan1(json, p, acc) ==
    IF p > Len(json) \/ json[p] = QUOTE \/ ~(Len(acc) < MAX_CMD - 1) THEN acc
    ELSE IF json[p] = BSLASH /\ p + 1 <= Len(json) THEN
        LET c == json[p + 1]
            d == IF c = "n" THEN NL ELSE IF c = "t" THEN TAB
                 ELSE IF c = "r" THEN CR ELSE c
        IN  Scan1(json, p + 2, Append(acc, d))
    ELSE Scan1(json, p + 1, Append(acc, json[p]))

extract_content_static(json) ==
    LET s == ContentStart(json)
    IN  IF s = 0 THEN {NULL} ELSE {Ptr(Scan1(json, s, <<>>))}

\* ------------------------------------------------------------ literals
DEFAULT_MODEL ==
    <<"c","l","a","u","d","e","-","s","o","n","n","e","t","-","4","-","2","0","2","5","0","5",
      "1","4">>

PREAMBLE_V2 ==
    <<"T","a","s","k",":","N","a","t","u","r","a","l"," ","l","a","n","g","u","a","g","e","-",
      ">","B","a","s","h"," ","c","o","m","m","a","n","d",".","R","u","l","e","s",":","N","O",
      " ","m","a","r","k","d","o","w","n","/","e","x","p","l","a","n","a","t","i","o","n",".",
      "O","N","L","Y"," ","c","o","m","m","a","n","d"," ","t","e","x","t",".","F","a","i","l",
      "u","r","e",":","\"","E","R","R","O","R",":","r","e","a","s","o","n","\"",".","C","t","x",
      ":">>

PREAMBLE_V1 ==
    <<"Y","o","u"," ","a","r","e"," ","a"," ","c","o","m","m","a","n","d","-","l","i","n","e",
      " ","a","s","s","i","s","t","a","n","t","."," ","C","o","n","v","e","r","t"," ","n","a",
      "t","u","r","a","l"," ","l","a","n","g","u","a","g","e"," ","t","o"," ","a"," ","s","i",
      "n","g","l","e"," ","b","a","s","h"," ","c","o","m","m","a","n","d","."," ","O","u","t",
      "p","u","t"," ","O","N","L","Y"," ","t","h","e"," ","c","o","m","m","a","n","d",","," ",
      "n","o"," ","e","x","p","l","a","n","a","t","i","o","n","s"," ","o","r"," ","m","a","r",
      "k","d","o","w","n","."," ","I","f"," ","i","m","p","o","s","s","i","b","l","e",","," ",
      "r","e","s","p","o","n","d"," ","w","i","t","h",":"," ","E","R","R","O","R",":"," ","r",
      "e","a","s","o","n","\n","\n","E","n","v","i","r","o","n","m","e","n","t",":","\n">>

BODY_HEAD == <<"{","\"","m","o","d","e","l","\"",":","\"">>

BODY_SYSTEM ==
    <<"\"",",","\"","m","a","x","_","t","o","k","e","n","s","\"",":","1","0","2","4",",","\"",
      "s","y","s","t","e","m","\"",":","\"">>

BODY_MESSAGES ==
    <<"\"",",","\"","m","e","s","s","a","g","e","s","\"",":","[","{","\"","r","o","l","e","\"",
      ":","\"","u","s","e","r","\"",",","\"","c","o","n","t","e","n","t","\"",":","\"">>

BODY_TAIL == <<"\"","}","]","}">>

FILES_V2 == <<"|","F","i","l","e","s",":">>

FILES_V1 ==
    <<"\n","\n","F","i","l","e","s"," ","i","n"," ","c","u","r","r","e","n","t"," ","d","i","r",
      "e","c","t","o","r","y",":","\n">>

LS_MARKER == <<",",".",".",".">>

STR_UNKNOWN == <<"u","n","k","n","o","w","n">>
STR_USER == <<"u","s","e","r">>
STR_LINUX == <<"L","i","n","u","x">>
STR_BASH == <<"b","a","s","h">>
STR_BIN_BASH == <<"/","b","i","n","/","b","a","s","h">>
STR_DOT == <<".">>

CMD_Q == <<"/","q">>
CMD_QUIT == <<"/","q","u","i","t">>
CMD_H == <<"/","h">>
CMD_HELP == <<"/","h","e","l","p">>
CMD_LS == <<"/","l","s">>

\* ------------------------------------------------------- the platform
\* What the lookups of gather_context and getenv("COMGEN_MODEL") return on
\* the machine: a pointer to the value, or NULL when the lookup fails.
Platforms ==
    { [home |-> Ptr(<<"/","h","o","m","e","/","m","e">>), pw_name |-> Ptr(<<"m","e">>),
       hostname |-> Ptr(<<"h","o","s","t">>), sysname |-> Ptr(STR_LINUX),
       release |-> <<"6",".","1">>, shell |-> Ptr(<<"/","b","i","n","/","z","s","h">>),
       comgen_model |-> NULL],
      [home |-> NULL, pw_name |-> NULL, hostname |-> NULL, sysname |-> NULL,
       release |-> <<>>, shell |-> NULL, comgen_model |-> Ptr(<<"m">>)] }

\* Directories the process may be in.
Cwds == { <<"/","t","m","p">>, <<"/","h","o","m","e","/","m","e">> }

\* getcwd: the directory, or NULL on failure
GetcwdResults == {Ptr(c) : c \in Cwds} \cup {NULL}

\* Contents of the cwd buffer after a failed getcwd whose result is not
\* checked: POSIX leaves the buffer undefined (unchanged, or emptied).
CwdAfterFailure(old) == {old, <<>>}

\* strrchr(shell, '/') ? p + 1 : shell
Basename(path) ==
    LET hits == {i \in 1..Len(path) : path[i] = "/"}
    IN  IF hits = {} THEN path
        ELSE LET last == CHOOSE i \in hits : \A j \in hits : j <= i
             IN  SubSeq(path, last + 1, Len(path))

OrElse(p, fallback) == IF p = NULL THEN fallback ELSE Deref(p)

\* comgen2 gather_context (non-_WIN32 branch); ls_output starts NULL
\* (static storage).  strncpy keeps at most size-1 characters.
gather_context(pf, cwd) ==
    [cwd |-> OrElse(cwd, STR_DOT),
     user |-> Take(OrElse(pf.pw_name, STR_USER), 63),
     os |-> snprintf(256, OrElse(pf.sysname, STR_LINUX)),
     shell |-> IF pf.shell = NULL THEN STR_BASH ELSE Take(Basename(Deref(pf.shell)), 127),
     home |-> <<>>,
     hostname |-> <<>>,
     ls_output |-> NULL]

\* comgen1 gather_context; ls_output is a static array, initially "".
gather_context_static(pf, cwd) ==
    [cwd |-> OrElse(cwd, STR_UNKNOWN),
     user |-> Take(OrElse(pf.pw_name, STR_UNKNOWN), 63),
     os |-> IF pf.sysname = NULL THEN STR_UNKNOWN
            ELSE snprintf(256, Deref(pf.sysname) \o <<" ">> \o pf.release),
     shell |-> IF pf.shell = NULL THEN STR_BIN_BASH ELSE Take(Deref(pf.shell), 127),
     home |-> Take(OrElse(pf.home, STR_UNKNOWN), 255),
     hostname |-> OrElse(pf.hostname, STR_UNKNOWN),
     ls_output |-> Ptr(<<>>)]

\* ------------------------------------------------- build_system_prompt
\* comgen2: preamble, then the context line formatted into buf[2048], then
\* "|Files:" and the listing when ls_output is not NULL; the StringBuffer
\* grows as needed.
build_system_prompt(e) ==
    PREAMBLE_V2
    \o snprintf(CTX_BUF_SIZE,
                <<"O","S",":">> \o e.os \o <<"|","S","h","e","l","l",":">> \o e.shell
                \o <<"|","U","s","e","r",":">> \o e.user \o <<"|","C","W","D",":">> \o e.cwd)
    \o (IF e.ls_output # NULL THEN FILES_V2 \o Deref(e.ls_output) ELSE <<>>)

\* comgen1: snprintf into system_prompt[MAX_SYSTEM_PROMPT], then a second
\* snprintf at the end of it when ls_output is not empty.
build_system_prompt_static(e) ==
    LET base == snprintf(MAX_SYSTEM_PROMPT,
                    PREAMBLE_V1
                    \o <<"-"," ","O","S",":"," ">> \o e.os
                    \o <<"\n","-"," ","S","h","e","l","l",":"," ">> \o e.shell
                    \o <<"\n","-"," ","U","s","e","r",":"," ">> \o e.user
                    \o <<"\n","-"," ","H","o","s","t","n","a","m","e",":"," ">> \o e.hostname
                    \o <<"\n","-"," ","H","o","m","e",":"," ">> \o e.home
                    \o <<"\n","-"," ","C","W","D",":"," ">> \o e.cwd)
    IN  IF Deref(e.ls_output) # <<>>
        THEN base \o snprintf(MAX_SYSTEM_PROMPT - Len(base), FILES_V1 \o Deref(e.ls_output))
        ELSE base

\* ---------------------------------------------------- capture_ls_output
Digit(k) == <<"0","1","2","3","4","5","6","7","8","9">>[k + 1]

EntryName(i) ==
    <<"f","i","l","e","_", Digit((i \div 10) % 10), Digit(i % 10), ".","t","x","t">>

Dir(n) == [i \in 1..n |-> EntryName(i)]

\* The directories /ls may find: empty, small, exactly at the entry limit,
\* and larger than the limit.
Dirs == {Dir(0), Dir(2), Dir(LS_ENTRY_LIMIT), Dir(BigDirEntries)}

\* comgen2 loop (src/comgen.c 181-193): entry i is appended, preceded by
\* "," when count > 0, while fgets returns a line and count < 50.
RECURSIVE LsLoop(_, _, _)
LsLoop(lines, count, acc) ==
    IF count < Len(lines) /\ count < LS_ENTRY_LIMIT
    THEN LsLoop(lines, count + 1,
                acc \o (IF count > 0 THEN <<",">> ELSE <<>>) \o lines[count + 1])
    ELSE [count |-> count, text |-> acc]

\* the text capture_ls_output stores when popen succeeds (comgen2)
ls_capture(lines) ==
    LET r == LsLoop(lines, 0, <<>>)
    IN  IF r.count >= LS_ENTRY_LIMIT THEN r.text \o LS_MARKER ELSE r.text

\* The bytes the listing command writes: every line followed by a newline.
RECURSIVE RawListing(_, _)
RawListing(lines, i) ==
    IF i > Len(lines) THEN <<>> ELSE lines[i] \o <<NL>> \o RawListing(lines, i + 1)

\* comgen1: fread of at most sizeof(ls_output) - 1 bytes
ls_capture_static(lines) == Take(RawListing(lines, 1), MAX_LS_OUTPUT - 1)

\* ------------------------------------------------------- request body
\* comgen2 generate_command: the body is formatted into head[512].
request_body(model, sys_prompt, prompt) ==
    snprintf(HEAD_SIZE,
             BODY_HEAD \o model \o BODY_SYSTEM \o json_escape(sys_prompt)
             \o BODY_MESSAGES \o json_escape(prompt) \o BODY_TAIL)

\* comgen1 generate_command: escaped into escaped_prompt[MAX_PROMPT * 2] and
\* escaped_system[MAX_SYSTEM_PROMPT * 2], formatted into post_data.
request_body_static(sys_prompt, prompt) ==
    snprintf(MAX_PROMPT * 3 + MAX_SYSTEM_PROMPT * 2,
             BODY_HEAD \o DEFAULT_MODEL \o BODY_SYSTEM
             \o json_escape_n(sys_prompt, MAX_SYSTEM_PROMPT * 2)
             \o BODY_MESSAGES \o json_escape_n(prompt, MAX_PROMPT * 2) \o BODY_TAIL)

\* ------------------------------------------------------- write callback
\* comgen2 write_cb: sb_append(sb, (char *)ptr) copies strlen(ptr) bytes of
\* a buffer that is not NUL-terminated, so the copy may run on into the
\* bytes after the chunk (over).
write_cb(sb, chunk, over) == sb \o chunk \o over

\* comgen1 write_cb: a chunk is kept only if it fits response_buf.
write_cb_static(buf, chunk) ==
    IF Len(buf) + Len(chunk) < MAX_RESPONSE - 1 THEN buf \o chunk ELSE buf

\* Bytes sb_append may pick up after a chunk in comgen2.
OverRead == {<<>>, <<"#">>}

\* ---------------------------------------------------------- the gate
\* Faulty prompt_action: everything that is not n or e runs.
prompt_action_default_run(buf) ==
    IF buf = NULL THEN "n"
    ELSE LET c == Deref(buf)[1]
         IN  IF c = "n" \/ c = "N" THEN "n"
             ELSE IF c = "e" \/ c = "E" THEN "e"
             ELSE "y"

\* prompt_action: buf is NULL when fgets hits end of input, else the line.
prompt_action(buf) ==
    IF buf = NULL THEN "n"
    ELSE LET c == Deref(buf)[1]
         IN  IF c = "y" \/ c = "Y" \/ c = NL THEN "y"
             ELSE IF c = "e" \/ c = "E" THEN "e"
             ELSE "n"

\* Faulty test: strcmp instead of strncmp.
IsModelError_strcmp(cmd) == cmd = ERROR_TAG

\* strncmp(cmd, "ERROR:", 6) == 0
IsModelError(cmd) == strncmp_eq(cmd, ERROR_TAG, ERROR_TAG_LEN)

\* edit_buf[strcspn(edit_buf, "\n")] = 0
StripNewline(s) ==
    LET n == strchr(s, 1, NL) IN IF n = 0 THEN s ELSE SubSeq(s, 1, n - 1)

\* ------------------------------------------------------------- dispatch
\* Faulty dispatch: the strlen test is missing.
dispatch_no_blank_test(line) ==
    IF line = CMD_Q THEN "quit"
    ELSE IF line = CMD_LS THEN "ls"
    ELSE "model"

\* Faulty dispatch: /ls is not recognised.
dispatch_static_no_ls(line) ==
    IF Len(line) = 0 THEN "blank"
    ELSE IF line = CMD_Q \/ line = CMD_QUIT THEN "quit"
    ELSE IF line = CMD_H \/ line = CMD_HELP THEN "help"
    ELSE "model"

\* comgen2 main loop (src/comgen.c 556-566): how a line is handled.
dispatch(line) ==
    IF line = CMD_Q THEN "quit"
    ELSE IF line = CMD_LS THEN "ls"
    ELSE IF Len(line) > 0 THEN "model"
    ELSE "blank"

\* comgen1 main loop (part_002 291-311).
dispatch_static(line) ==
    IF Len(line) = 0 THEN "blank"
    ELSE IF line = CMD_Q \/ line = CMD_QUIT THEN "quit"
    ELSE IF line = CMD_H \/ line = CMD_HELP THEN "help"
    ELSE IF line = CMD_LS THEN "ls"
    ELSE "model"

\* comgen2 edit flow (src/comgen.c 592-600): whatever fgets returned is run.
edit_runs(buf) == buf # NULL

\* comgen1 edit flow (part_002 344-348): if (edited && *edited)
edit_runs_static(buf) == buf # NULL /\ StripNewline(Deref(buf)) # <<>>

\* Faulty gate: everything but an edit runs the command.
gate_runs_unless_edit(action) == action # "e"

\* main: which reply of prompt_action calls execute_command(cmd)
gate_runs(action) == action = "y"

\* generate_command after curl_easy_perform: the values it can return.
\* comgen2 (388-398): a failed transfer only prints; an empty buffer gives
\* NULL, anything else is scanned.
generate_result(res_ok, response) ==
    IF Len(response) = 0 THEN {NULL} ELSE extract_content(response)

\* comgen1 (228-233): a failed transfer gives NULL.
generate_result_static(res_ok, response) ==
    IF ~res_ok THEN {NULL} ELSE extract_content_static(response)

\* ------------------------------------------------------------ inputs
Builds == {"comgen2", "comgen1"}

\* ANTHROPIC_API_KEY: unset, set to the empty string, set to a key
ApiKeys == {NULL, Ptr(<<>>), Ptr(<<"k">>)}

SpecialLine == <<"l","s"," ","\"","a","\\","b","\"">>

LongLine == Repeat("a", LongLineLen)

\* Lines the user may type at the prompt.
Lines == {<<>>, CMD_Q, CMD_QUIT, CMD_H, CMD_HELP, CMD_LS, SpecialLine, LongLine}

B_NOMARKER == <<"{","\"","e","r","r","\"",":","1","}">>
B_COMMAND == <<"{","\"","t","e","x","t","\"",":","\"","l","s","\"","}">>
B_ERROR == <<"{","\"","t","e","x","t","\"",":","\"","E","R","R","O","R",":"," ","n","o","\"","}">>
B_CUT == <<"{","\"","t","e","x","t","\"",":","\"","r","m">>
B_NOQUOTE == <<"{","\"","t","e","x","t","\"",":","0","}">>
B_BSLASH_END == <<"{","\"","t","e","x","t","\"",":","\"","l","s","\\">>

Bodies == {B_NOMARKER, B_COMMAND, B_ERROR, B_CUT, B_NOQUOTE, B_BSLASH_END}

\* What curl_easy_perform does: the chunks it hands to the write callback
\* and whether it returns CURLE_OK.  A failed transfer delivered nothing or
\* part of a body.
Transfers ==
    {[ok |-> TRUE, chunks |-> <<b>>] : b \in Bodies}
    \cup {[ok |-> TRUE, chunks |-> <<>>],
          [ok |-> TRUE, chunks |-> <<SubSeq(B_COMMAND, 1, 5), SubSeq(B_COMMAND, 6, 13)>>],
          [ok |-> FALSE, chunks |-> <<>>],
          [ok |-> FALSE, chunks |-> <<B_COMMAND>>],
          [ok |-> FALSE, chunks |-> <<B_CUT>>]}

\* Lines typed at "Execute? [y/n/edit]:" (NULL: end of input)
ConfirmInputs ==
    {NULL, Ptr(<<"y", NL>>), Ptr(<<NL>>), Ptr(<<"n", NL>>), Ptr(<<"e", NL>>),
     Ptr(<<"z", "z", NL>>)}

\* Lines typed at the edit prompt (NULL: end of input)
EditInputs == {NULL, Ptr(<<NL>>), Ptr(<<"p","w","d", NL>>)}

\* WEXITSTATUS of the executed command
ExitStatuses == {0, 1}

\* ------------------------------------------------------------- state
VARIABLES
    build,          \* which build of the program runs
    pc,             \* where main is: start, read, net, gate, edit, bottom, stopped, crashed
    session,        \* ComgenSession: api_key, model
    env_ctx,        \* EnvContext, with ls_output
    ls_freed,       \* comgen2: env_ctx.ls_output points to freed memory
    system_prompt,  \* comgen1: the static system_prompt buffer
    line_buf,       \* the line read at the prompt (NULL before any)
    cmd,            \* what generate_command returned in this turn
    exit_code,      \* NULL while running, else <<code>>
    turn,           \* what the current turn did so far (observations)
    failed,         \* history: some executed command returned a non-zero status
    fx              \* state of the function-level specifications

vars == <<build, pc, session, env_ctx, ls_freed, system_prompt, line_buf, cmd,
          exit_code, turn, failed, fx>>

FxOff == [pc |-> "off"]

EmptyTurn ==
    [kind |-> "none",        \* quit, ls, help, blank, model
     sends |-> 0,            \* transport calls made
     request |-> NULL,       \* body handed to the transport
     sys_prompt |-> NULL,    \* system prompt the request was built from
     getcwd |-> NULL,        \* the cwd lookup: NULL none, <<NULL>> failed, <<Ptr(dir)>>
     res_ok |-> TRUE,        \* curl_easy_perform returned CURLE_OK
     response |-> NULL,      \* accumulated response buffer
     presented |-> NULL,     \* command printed for confirmation
     shown |-> NULL,         \* ERROR text printed
     confirm |-> "none",     \* none, line, eof: the confirmation read
     action |-> "none",      \* what prompt_action returned
     edit |-> NULL,          \* the edit line read: NULL, <<NULL>> at eof, <<Ptr(line)>>
     shell |-> <<>>,         \* execute_command calls: [cmd, from]
     reports |-> <<>>,       \* per call: status system() returned, what was printed
     ls_runs |-> 0,          \* popen of the listing command
     msgs |-> {}]            \* messages printed

Init ==
    /\ build \in Builds
    /\ pc = "start"
    /\ session = [api_key |-> NULL, model |-> NULL]
    /\ env_ctx = [cwd |-> <<>>, user |-> <<>>, os |-> <<>>, shell |-> <<>>, home |-> <<>>,
                  hostname |-> <<>>, ls_output |-> NULL]
    /\ ls_freed = FALSE
    /\ system_prompt = <<>>
    /\ line_buf = NULL
    /\ cmd = NULL
    /\ exit_code = NULL
    /\ turn = EmptyTurn
    /\ failed = FALSE
    /\ fx = FxOff

\* ------------------------------------------------------------ startup
\* main up to the first prompt.  comgen2: session_init (getenv, model,
\* curl_easy_init), then gather_context.  comgen1: getenv, gather_context,
\* build_system_prompt.
SessionInit ==
    /\ pc = "start"
    /\ \E key \in ApiKeys, curl_ok \in BOOLEAN, pf \in Platforms,
          c \in GetcwdResults :
        IF key = NULL \/ (build = "comgen2" /\ ~curl_ok)
        THEN /\ pc' = "stopped"
             /\ exit_code' = <<1>>
             /\ turn' = [turn EXCEPT !.msgs = {"Init failed"}]
             /\ UNCHANGED <<session, env_ctx, system_prompt>>
        ELSE /\ pc' = "read"
             /\ session' = [api_key |-> key,
                            model |-> IF build = "comgen2" THEN Ptr(OrElse(pf.comgen_model, DEFAULT_MODEL))
                                      ELSE Ptr(DEFAULT_MODEL)]
             /\ env_ctx' = IF build = "comgen2" THEN gather_context(pf, c)
                           ELSE gather_context_static(pf, c)
             /\ system_prompt' = IF build = "comgen2" THEN <<>>
                                 ELSE build_system_prompt_static(gather_context_static(pf, c))
             /\ UNCHANGED <<exit_code, turn>>
    /\ UNCHANGED <<build, ls_freed, line_buf, cmd, failed, fx>>

Kind(line) == IF build = "comgen2" THEN dispatch(line) ELSE dispatch_static(line)

\* readline returned NULL (end of input): the loop ends, main returns 0.
ReadEOF ==
    /\ pc = "read"
    /\ pc' = "stopped"
    /\ exit_code' = <<0>>
    /\ line_buf' = NULL
    /\ cmd' = NULL
    /\ turn' = EmptyTurn
    /\ UNCHANGED <<build, session, env_ctx, ls_freed, system_prompt, failed, fx>>

\* the quit command
ReadQuit ==
    /\ pc = "read"
    /\ \E l \in Lines :
        /\ Kind(l) = "quit"
        /\ line_buf' = Ptr(l)
    /\ pc' = "stopped"
    /\ exit_code' = <<0>>
    /\ cmd' = NULL
    /\ turn' = [EmptyTurn EXCEPT !.kind = "quit"]
    /\ UNCHANGED <<build, session, env_ctx, ls_freed, system_prompt, failed, fx>>

\* a blank line: nothing is done, the loop prompts again
ReadBlank ==
    /\ pc = "read"
    /\ \E l \in Lines :
        /\ Kind(l) = "blank"
        /\ line_buf' = Ptr(l)
    /\ cmd' = NULL
    /\ turn' = [EmptyTurn EXCEPT !.kind = "blank"]
    /\ pc' = "bottom"
    /\ UNCHANGED <<build, session, env_ctx, ls_freed, system_prompt, exit_code, failed, fx>>

\* comgen1 only: /h and /help print the help text
ReadHelp ==
    /\ pc = "read"
    /\ \E l \in Lines :
        /\ Kind(l) = "help"
        /\ line_buf' = Ptr(l)
    /\ cmd' = NULL
    /\ turn' = [EmptyTurn EXCEPT !.kind = "help", !.msgs = {"help"}]
    /\ pc' = "bottom"
    /\ UNCHANGED <<build, session, env_ctx, ls_freed, system_prompt, exit_code, failed, fx>>

\* ------------------------------------------------------------- /ls
\* What free(env_ctx.ls_output) of an already freed pointer can do.
DoubleFreeOutcomes == {"abort", "continue"}

\* /ls: capture_ls_output.  comgen2 frees the old listing first and leaves
\* the pointer dangling when popen fails; comgen1 fills the static array
\* and rebuilds the system prompt.
ReadLs ==
    /\ pc = "read"
    /\ \E l \in Lines :
        /\ Kind(l) = "ls"
        /\ line_buf' = Ptr(l)
    /\ cmd' = NULL
    /\ \E popen_ok \in BOOLEAN, dir \in Dirs, df \in DoubleFreeOutcomes :
        IF build = "comgen2" /\ ls_freed /\ df = "abort"
        THEN /\ pc' = "crashed"
             /\ exit_code' = <<134>>
             /\ turn' = [EmptyTurn EXCEPT !.kind = "ls"]
             /\ UNCHANGED <<env_ctx, ls_freed, system_prompt>>
        ELSE IF ~popen_ok
        THEN /\ turn' = [EmptyTurn EXCEPT !.kind = "ls", !.msgs = {"ls failed"}]
             /\ ls_freed' = (build = "comgen2" /\ env_ctx.ls_output # NULL)
             /\ pc' = "bottom"
             /\ UNCHANGED <<exit_code, env_ctx, system_prompt>>
        ELSE /\ turn' = [EmptyTurn EXCEPT !.kind = "ls", !.ls_runs = 1,
                                          !.msgs = {"Captured"}]
             /\ ls_freed' = FALSE
             /\ env_ctx' = [env_ctx EXCEPT !.ls_output =
                                IF build = "comgen2" THEN Ptr(ls_capture(dir))
                                ELSE Ptr(ls_capture_static(dir))]
             /\ system_prompt' =
                    IF build = "comgen2" THEN system_prompt
                    ELSE build_system_prompt_static(
                             [env_ctx EXCEPT !.ls_output = Ptr(ls_capture_static(dir))])
             /\ pc' = "bottom"
             /\ UNCHANGED exit_code
    /\ UNCHANGED <<build, session, failed, fx>>

\* ------------------------------------------------------- a model turn
\* The context as build_system_prompt reads it: a dangling ls_output
\* yields the old bytes or whatever replaced them.
EnvViews(e, freed) ==
    IF freed THEN {e, [e EXCEPT !.ls_output = Ptr(<<"?">>)]} ELSE {e}

\* A request line: cwd refresh, then generate_command up to the transport
\* call (comgen2 566-381; comgen1 313-222).
ReadModel ==
    /\ pc = "read"
    /\ \E l \in Lines, gc \in GetcwdResults, curl_ok \in BOOLEAN :
        /\ Kind(l) = "model"
        /\ line_buf' = Ptr(l)
        /\ cmd' = NULL
        /\ IF build = "comgen2"
           THEN \E c \in (IF gc = NULL THEN CwdAfterFailure(env_ctx.cwd) ELSE {Deref(gc)}) :
                \E view \in EnvViews([env_ctx EXCEPT !.cwd = c], ls_freed) :
                    LET sp == build_system_prompt(view)
                    IN  /\ env_ctx' = [env_ctx EXCEPT !.cwd = c]
                        /\ turn' = [EmptyTurn EXCEPT
                                       !.kind = "model", !.sends = 1, !.getcwd = Ptr(gc), !.sys_prompt = Ptr(sp),
                                       !.request = Ptr(request_body(Deref(session.model), sp, l))]
                        /\ pc' = "net"
                        /\ UNCHANGED system_prompt
           ELSE \E c \in (IF gc = NULL THEN CwdAfterFailure(env_ctx.cwd) ELSE {Deref(gc)}) :
                    LET e1 == [env_ctx EXCEPT !.cwd = c]
                        sp == IF gc = NULL THEN system_prompt
                              ELSE build_system_prompt_static(e1)
                    IN  /\ env_ctx' = e1
                        /\ system_prompt' = sp
                        /\ IF curl_ok
                           THEN /\ turn' = [EmptyTurn EXCEPT
                                       !.kind = "model", !.sends = 1, !.getcwd = Ptr(gc), !.sys_prompt = Ptr(sp),
                                       !.request = Ptr(request_body_static(sp, l))]
                                /\ pc' = "net"
                           ELSE /\ turn' = [EmptyTurn EXCEPT
                                       !.kind = "model", !.getcwd = Ptr(gc),
                                       !.msgs = {"Failed to generate command"}]
                                /\ pc' = "bottom"
    /\ UNCHANGED <<build, session, ls_freed, exit_code, failed, fx>>

\* the response buffer after the write callback received every chunk
RECURSIVE Receive(_, _, _, _)
Receive(b, chunks, over, buf) ==
    IF chunks = <<>> THEN buf
    ELSE Receive(b, Tail(chunks), over,
                 IF b = "comgen2" THEN write_cb(buf, Head(chunks), over)
                 ELSE write_cb_static(buf, Head(chunks)))

\* curl_easy_perform returns: the rest of generate_command, then main up
\* to the confirmation read (comgen2 381-399, 578-585; comgen1 222-339).
TransportReturns ==
    /\ pc = "net"
    /\ \E t \in Transfers, over \in OverRead :
        LET response == Receive(build, t.chunks, over, <<>>)
            results == IF build = "comgen2" THEN generate_result(t.ok, response)
                       ELSE generate_result_static(t.ok, response)
            curl_msg == IF t.ok THEN {} ELSE {"CURL Error"}
        IN  \E c \in results :
            /\ cmd' = c
            /\ IF c = NULL
               THEN /\ pc' = "bottom"
                    /\ turn' = [turn EXCEPT !.res_ok = t.ok, !.response = Ptr(response),
                                   !.msgs = curl_msg \cup {"Error generating command"}]
               ELSE IF IsModelError(Deref(c))
               THEN /\ pc' = "bottom"
                    /\ turn' = [turn EXCEPT !.res_ok = t.ok, !.response = Ptr(response),
                                   !.shown = c, !.msgs = curl_msg]
               ELSE /\ pc' = "gate"
                    /\ turn' = [turn EXCEPT !.res_ok = t.ok, !.response = Ptr(response),
                                   !.presented = c, !.msgs = curl_msg]
    /\ UNCHANGED <<build, session, env_ctx, ls_freed, system_prompt, line_buf, exit_code, failed, fx>>

\* Faulty report: a failing command is reported as a success.
execute_report_always_success(ret) == <<"Success">>

\* execute_command after system(): "Success" when the command exited with
\* status 0, else the exit line with WEXITSTATUS(ret) (comgen2 494-497;
\* comgen1 240-245).
execute_report(ret) == IF ret = 0 THEN <<"Success">> ELSE <<"Exit", ret>>

\* Faulty runner call: only the first word character of the text is passed.
Executed_rewritten(t, text, from, ret) ==
    [t EXCEPT !.shell = Append(@, [cmd |-> Take(text, 1), from |-> from]),
              !.reports = Append(@, [status |-> ret, shown |-> execute_report(ret)]),
              !.msgs = @ \cup {IF ret = 0 THEN "Success" ELSE "Exit"}]

\* execute_command: system(cmd) and the report of its exit status
Executed(t, text, from, ret) ==
    [t EXCEPT !.shell = Append(@, [cmd |-> text, from |-> from]),
              !.reports = Append(@, [status |-> ret, shown |-> execute_report(ret)]),
              !.msgs = @ \cup {IF ret = 0 THEN "Success" ELSE "Exit"}]

\* The line typed at "Execute?" arrives: prompt_action, then the branch of
\* main it selects (comgen2 585-590; comgen1 339-351).
Confirm ==
    /\ pc = "gate"
    /\ \E buf \in ConfirmInputs, ret \in ExitStatuses :
        LET a == prompt_action(buf)
            t == [turn EXCEPT !.confirm = IF buf = NULL THEN "eof" ELSE "line",
                              !.action = a]
        IN  IF gate_runs(a)
            THEN /\ turn' = Executed(t, Deref(cmd), "model", ret)
                 /\ pc' = "bottom"
            ELSE IF a = "e"
            THEN /\ turn' = t
                 /\ pc' = "edit"
            ELSE /\ turn' = IF build = "comgen2" THEN t
                            ELSE [t EXCEPT !.msgs = @ \cup {"Skipped"}]
                 /\ pc' = "bottom"
    /\ UNCHANGED <<build, session, env_ctx, ls_freed, system_prompt, line_buf, cmd,
                   exit_code, fx>>
    /\ failed' = (failed \/ (turn'.reports # <<>> /\ turn'.reports[Len(turn'.reports)].status # 0))

\* The line typed at the edit prompt arrives (comgen2 590-600, fgets;
\* comgen1 344-348, readline).
EditLine ==
    /\ pc = "edit"
    /\ \E buf \in EditInputs, ret \in ExitStatuses :
        LET t == [turn EXCEPT !.edit = Ptr(buf)]
            runs == IF build = "comgen2" THEN edit_runs(buf) ELSE edit_runs_static(buf)
        IN  turn' = IF runs THEN Executed(t, StripNewline(Deref(buf)), "edit", ret) ELSE t
    /\ pc' = "bottom"
    /\ UNCHANGED <<build, session, env_ctx, ls_freed, system_prompt, line_buf, cmd,
                   exit_code, fx>>
    /\ failed' = (failed \/ (turn'.reports # <<>> /\ turn'.reports[Len(turn'.reports)].status # 0))

\* Faulty loop: a turn in which no command could be generated ends the
\* session.
LoopBottom_exits_on_error ==
    /\ pc = "bottom"
    /\ IF turn.kind = "model" /\ cmd = NULL
       THEN pc' = "stopped" /\ exit_code' = <<1>>
       ELSE pc' = "read" /\ UNCHANGED exit_code
    /\ line_buf' = NULL
    /\ cmd' = NULL
    /\ turn' = EmptyTurn
    /\ UNCHANGED <<build, session, env_ctx, ls_freed, system_prompt, failed, fx>>

\* End of the loop body (comgen2 603-610; comgen1 353, and the free before
\* each continue): cmd and the line are released and main calls readline.
LoopBottom ==
    /\ pc = "bottom"
    /\ pc' = "read"
    /\ line_buf' = NULL
    /\ cmd' = NULL
    /\ turn' = EmptyTurn
    /\ UNCHANGED <<build, session, env_ctx, ls_freed, system_prompt, exit_code, failed, fx>>

Next ==
    \/ SessionInit
    \/ ReadEOF
    \/ ReadQuit
    \/ ReadBlank
    \/ ReadHelp
    \/ ReadLs
    \/ ReadModel
    \/ TransportReturns
    \/ Confirm
    \/ EditLine
    \/ LoopBottom

Spec == Init /\ [][Next]_vars

\* The session under the assumption that every collaborator call returns:
\* curl_easy_perform, the confirmation read, the edit read and system()
\* come back, and main goes on to the end of the loop body.  Nothing is
\* assumed about the user typing a next line.
SpecLive ==
    /\ Init
    /\ [][Next]_vars
    /\ WF_vars(TransportReturns)
    /\ WF_vars(Confirm)
    /\ WF_vars(EditLine)
    /\ WF_vars(LoopBottom)

\* ------------------------------------------------ function-level checks
\* The session loop does not run in the function-level specifications.
SessionOff ==
    /\ build = "comgen2"
    /\ pc = "off"
    /\ session = [api_key |-> NULL, model |-> NULL]
    /\ env_ctx = [cwd |-> <<>>, user |-> <<>>, os |-> <<>>, shell |-> <<>>, home |-> <<>>,
                  hostname |-> <<>>, ls_output |-> NULL]
    /\ ls_freed = FALSE
    /\ system_prompt = <<>>
    /\ line_buf = NULL
    /\ cmd = NULL
    /\ exit_code = NULL
    /\ turn = EmptyTurn
    /\ failed = FALSE

SessionVars ==
    <<build, pc, session, env_ctx, ls_freed, system_prompt, line_buf, cmd, exit_code, turn,
      failed>>

\* every string of length at most n over the alphabet
RECURSIVE StringsUpTo(_, _)
StringsUpTo(alphabet, n) ==
    IF n = 0 THEN {<<>>}
    ELSE LET shorter == StringsUpTo(alphabet, n - 1)
         IN  shorter \cup {Append(s, c) : s \in shorter, c \in alphabet}

\* --- json_escape followed by extract_content
\* Ordinary characters (one of them the letter n, which the un-escaping
\* treats specially after a backslash) and the five escaped ones.
RtAlphabet == {"a", "n", QUOTE, BSLASH, NL, CR, TAB}

\* What follows the closing quote in the body.
RtTails == { <<"}">>, <<",","\"","k","\"",":","1","}">> }

InitRT ==
    /\ SessionOff
    /\ \E b \in Builds, s \in StringsUpTo(RtAlphabet, MaxStrLen), t \in RtTails :
        fx = [pc |-> "src", build |-> b, s |-> s, tail |-> t, esc |-> <<>>, out |-> NULL]

\* the string is escaped as generate_command escapes the user's line
RT_Escape ==
    /\ fx.pc = "src"
    /\ fx' = [fx EXCEPT !.pc = "escaped",
                        !.esc = IF fx.build = "comgen2" THEN json_escape(fx.s)
                                ELSE json_escape_n(fx.s, MAX_PROMPT * 2)]
    /\ UNCHANGED SessionVars

\* a body holding "text":"<escaped>" is interpreted
RT_Extract ==
    /\ fx.pc = "escaped"
    /\ LET body == <<"{">> \o TEXT_MARKER \o <<QUOTE>> \o fx.esc \o <<QUOTE>> \o fx.tail
       IN  \E r \in (IF fx.build = "comgen2" THEN extract_content(body)
                     ELSE extract_content_static(body)) :
               fx' = [fx EXCEPT !.pc = "extracted", !.out = r]
    /\ UNCHANGED SessionVars

NextRT == RT_Escape \/ RT_Extract

SpecRT == InitRT /\ [][NextRT]_vars

\* --- prompt_action
GateAlphabet == {"y", "Y", "n", "e", "E", "z", " "}

\* A line as fgets returns it: text, then the newline; NULL at end of input.
GateBufs == {NULL} \cup {Ptr(Append(s, NL)) : s \in StringsUpTo(GateAlphabet, MaxGateLen)}

InitGate ==
    /\ SessionOff
    /\ \E buf \in GateBufs : fx = [pc |-> "asked", buf |-> buf, action |-> "none"]

Gate_Classify ==
    /\ fx.pc = "asked"
    /\ fx' = [fx EXCEPT !.pc = "classified", !.action = prompt_action(fx.buf)]
    /\ UNCHANGED SessionVars

NextGate == Gate_Classify

SpecGate == InitGate /\ [][NextGate]_vars

\* --- write_cb over one transfer
\* Sizes of the chunks the transport may hand over: one byte, and just under
\* half of the response buffer of comgen1.
ChunkSizes == {1, MAX_RESPONSE \div 2 - 1}

InitWcb ==
    /\ SessionOff
    /\ \E b \in Builds :
        fx = [pc |-> "recv", build |-> b, buf |-> <<>>, n |-> 0, size |-> 0, ret |-> 0,
              kept |-> TRUE]

\* curl calls the write callback with the next chunk; ret is the value the
\* callback returns (realsize in comgen2, len in comgen1).
Wcb_Deliver ==
    /\ fx.pc = "recv"
    /\ fx.n < MaxChunks
    /\ \E size \in ChunkSizes, over \in OverRead :
        LET chunk == Repeat("x", size)
            buf == IF fx.build = "comgen2" THEN write_cb(fx.buf, chunk, over)
                   ELSE write_cb_static(fx.buf, chunk)
        IN  fx' = [fx EXCEPT !.buf = buf, !.n = @ + 1, !.size = size, !.ret = size,
                             !.kept = (buf # fx.buf)]
    /\ UNCHANGED SessionVars

NextWcb == Wcb_Deliver

SpecWcb == InitWcb /\ [][NextWcb]_vars


\* --- capture_ls_output (comgen2) over directories of every size
InitLs ==
    /\ SessionOff
    /\ \E n \in 0..MaxDirEntries : fx = [pc |-> "listing", dir |-> Dir(n), out |-> NULL]

\* popen succeeded and the loop read the lines of the listing command
Ls_Capture ==
    /\ fx.pc = "listing"
    /\ fx' = [fx EXCEPT !.pc = "captured", !.out = Ptr(ls_capture(fx.dir))]
    /\ UNCHANGED SessionVars

NextLs == Ls_Capture

SpecLs == InitLs /\ [][NextLs]_vars

\* ------------------------------------------------------------- claims
NoGate ==
    /\ turn.presented = NULL
    /\ turn.confirm = "none"
    /\ turn.edit = NULL
    /\ turn.shell = <<>>
    /\ pc \notin {"gate", "edit"}

EndsWith(s, suffix) ==
    Len(s) >= Len(suffix) /\ SubSeq(s, Len(s) - Len(suffix) + 1, Len(s)) = suffix

\* C1: execute_command receives the generated command only in a turn where
\* that command was presented and the confirmation read returned Run; after
\* Skip, after end of input at the confirmation, and in a turn without a
\* confirmation read nothing is executed.
C1_RunOnlyAfterConfirm ==
    /\ \A i \in 1..Len(turn.shell) :
        turn.shell[i].from = "model" =>
            /\ turn.presented # NULL
            /\ turn.shell[i].cmd = Deref(turn.presented)
            /\ turn.confirm = "line"
            /\ turn.action = "y"
    /\ (turn.action = "n" \/ turn.confirm \in {"none", "eof"}) => turn.shell = <<>>

C1_Witness ==
    /\ turn.shell # <<>>
    /\ turn.shell[1].from = "model"
    /\ turn.action = "y"

\* C2: a response buffer without the "text": marker gives NULL, and the
\* turn presents nothing, reads no confirmation and executes nothing.
C2_NoMarkerNoGate ==
    (turn.response # NULL /\ strstr(Deref(turn.response), TEXT_MARKER) = 0) =>
        /\ cmd = NULL
        /\ turn.shown = NULL
        /\ NoGate

C2_Witness ==
    /\ turn.response # NULL
    /\ Len(Deref(turn.response)) > 0
    /\ strstr(Deref(turn.response), TEXT_MARKER) = 0
    /\ pc = "bottom"

\* C3: extracted text that starts with ERROR: is printed, is not presented
\* for confirmation and never reaches execute_command.
C3_ModelErrorShownNotRun ==
    (cmd # NULL /\ Len(Deref(cmd)) >= 6 /\ SubSeq(Deref(cmd), 1, 6) = ERROR_TAG) =>
        /\ turn.shown = cmd
        /\ NoGate

C3_Witness ==
    /\ cmd # NULL
    /\ turn.shown = cmd
    /\ Len(Deref(cmd)) > 6
    /\ pc = "bottom"

\* The text of a confirmation line before its newline.
GateText == SubSeq(Deref(fx.buf), 1, Len(Deref(fx.buf)) - 1)

\* C4 as stated (reading y and e in either case): "y", a blank line and
\* unrecognized garbage followed by a newline give Run; "n" and any other
\* single character give Skip; "e" gives Edit.  Garbage is a line of two
\* or more characters that starts with none of the recognised letters.
C4_AsStated ==
    (fx.pc = "classified" /\ fx.buf # NULL) =>
        /\ GateText \in {<<"y">>, <<"Y">>, <<>>} => fx.action = "y"
        /\ (Len(GateText) >= 2 /\ GateText[1] \notin {"y", "Y", "n", "e", "E"})
               => fx.action = "y"
        /\ GateText \in {<<"e">>, <<"E">>} => fx.action = "e"
        /\ (Len(GateText) = 1 /\ GateText[1] \notin {"y", "Y", "e", "E"})
               => fx.action = "n"

\* C4 amended: the first character decides.  y, Y or a blank line give Run;
\* e or E give Edit; anything else, unrecognized garbage followed by a
\* newline included, gives Skip, as does end of input.
C4_FirstCharacterDecides ==
    fx.pc = "classified" =>
        IF fx.buf = NULL THEN fx.action = "n"
        ELSE IF GateText = <<>> \/ GateText[1] \in {"y", "Y"} THEN fx.action = "y"
        ELSE IF GateText[1] \in {"e", "E"} THEN fx.action = "e"
        ELSE fx.action = "n"

C4_Witness ==
    /\ fx.pc = "classified"
    /\ fx.buf = Ptr(<<"z", "z", NL>>)
    /\ fx.action = "n"

\* C5: after Edit the line typed replaces the command; an empty edit line
\* ends the turn without any call of execute_command.
C5_EmptyEditSkips ==
    (turn.edit # NULL /\ Deref(turn.edit) # NULL) =>
        LET text == StripNewline(Deref(Deref(turn.edit)))
        IN  IF text = <<>> THEN turn.shell = <<>>
            ELSE turn.shell = <<[cmd |-> text, from |-> "edit"]>>

\* The three internal commands in every spelling a build accepts or prints.
InternalCommands == {CMD_Q, CMD_QUIT, CMD_H, CMD_HELP, CMD_LS}

\* The spellings each build implements.
Implemented(b) ==
    IF b = "comgen2" THEN {CMD_Q, CMD_LS} ELSE {CMD_Q, CMD_QUIT, CMD_H, CMD_HELP, CMD_LS}

C7_BlankLineNoop ==
    [][(pc = "read" /\ line_buf' = Ptr(<<>>)) =>
           /\ env_ctx' = env_ctx
           /\ ls_freed' = ls_freed
           /\ system_prompt' = system_prompt
           /\ turn'.sends = 0
           /\ turn'.ls_runs = 0
           /\ turn'.presented = NULL
           /\ turn'.confirm = "none"
           /\ turn'.shell = <<>>
           /\ pc' = "bottom"]_vars

C7_Witness ==
    /\ line_buf = Ptr(<<>>)
    /\ turn.kind = "blank"
    /\ pc = "bottom"

\* C8: extract_content of a body holding "text":"<json_escape(s)>" is s.
C8_RoundTrip ==
    fx.pc = "extracted" => fx.out = Ptr(fx.s)

\* C9: the body handed to the transport is the complete structure, with the
\* whole escaped system prompt, the whole escaped line and the closing
\* brackets.
C9_RequestComplete ==
    turn.request # NULL =>
        Deref(turn.request) =
            BODY_HEAD \o Deref(session.model) \o BODY_SYSTEM
            \o json_escape(Deref(turn.sys_prompt))
            \o BODY_MESSAGES \o json_escape(Deref(line_buf)) \o BODY_TAIL

\* The fixed capacity the system prompt has to fit: comgen1 builds it in
\* system_prompt[MAX_SYSTEM_PROMPT]; comgen2 sets no size for the prompt
\* itself and formats it into head[HEAD_SIZE].
SystemPromptMax(b) == IF b = "comgen1" THEN MAX_SYSTEM_PROMPT - 1 ELSE HEAD_SIZE - 1

\* C10: the system prompt never exceeds its maximum; a listing that does
\* not fit is cut with a visible marker.
C10_PromptBounded ==
    turn.sys_prompt # NULL =>
        /\ Len(Deref(turn.sys_prompt)) <= SystemPromptMax(build)
        /\ (env_ctx.ls_output # NULL
            /\ Len(Deref(env_ctx.ls_output)) > SystemPromptMax(build))
               => EndsWith(Deref(turn.sys_prompt), <<".",".",".">>)

\* C11: the accumulated response never grows past the hard bound of the
\* response buffer; a chunk that arrives when the bound is reached is
\* dropped, and the callback reports every chunk as consumed.
C11_ResponseBounded ==
    fx.pc = "recv" =>
        /\ Len(fx.buf) <= MAX_RESPONSE - 1
        /\ fx.ret = fx.size

\* C12: a turn whose transport call failed made one send, reported the
\* failure, offered nothing to the gate and is on its way back to the prompt.
C12_TransportFailureAbortsTurn ==
    (turn.kind = "model" /\ turn.response # NULL /\ ~turn.res_ok) =>
        /\ turn.sends = 1
        /\ turn.msgs \cap {"CURL Error", "Error generating command"} # {}
        /\ NoGate
        /\ pc = "bottom"

\* C13: the loop runs only with a non-empty credential; without one the
\* process has exited with a non-zero code and has read no line, sent no
\* request and run no command.
C13_CredentialRequired ==
    /\ pc \in {"read", "net", "gate", "edit", "bottom"} =>
           (session.api_key # NULL /\ Deref(session.api_key) # <<>>)
    /\ (pc = "stopped" /\ session.api_key = NULL) =>
           /\ exit_code # NULL /\ Deref(exit_code) # 0
           /\ line_buf = NULL /\ turn.sends = 0 /\ turn.shell = <<>>

\* C14: once the loop has started the process ends with exit code 0 on quit
\* and on end of input, whatever the executed commands returned; a command's
\* status is only printed: "Success" for 0, the exit line with the status
\* otherwise.
C14_ExitCodeZero ==
    /\ (pc = "stopped" /\ session.api_key # NULL) => exit_code = <<0>>
    /\ pc \notin {"stopped", "crashed"} => exit_code = NULL
    /\ \A i \in 1..Len(turn.reports) :
           turn.reports[i].shown =
               IF turn.reports[i].status = 0 THEN <<"Success">>
               ELSE <<"Exit", turn.reports[i].status>>

C14_Witness ==
    /\ pc = "stopped"
    /\ failed
    /\ exit_code = <<0>>
    /\ turn.kind = "quit"

\* A turn is under way: a request was sent or a command is at the gate.
InTurn == pc \in {"net", "gate", "edit", "bottom"}

\* C15: every turn, however it ends (transport error, unparseable response,
\* model error, skip, non-zero exit), is followed by the next read of a
\* line; the loop stops only on the quit command or at end of input.
C15_ErrorsReturnToReading ==
    /\ InTurn ~> (pc = "read")
    /\ [][pc' = "stopped" =>
            \/ pc = "start"
            \/ (pc = "read" /\ turn'.kind \in {"none", "quit"})]_vars

C15_Witness ==
    /\ pc = "bottom"
    /\ turn.kind = "model"
    /\ ~turn.res_ok
    /\ cmd = NULL
    /\ failed

\* build_system_prompt of the running build
PromptOf(e) ==
    IF build = "comgen2" THEN build_system_prompt(e) ELSE build_system_prompt_static(e)

\* C16: in a model turn the cwd lookup is made before the request is built,
\* its result is stored in the context, and the system prompt of the request
\* is build_system_prompt of the context as it is when the request is sent,
\* also when the lookup fails.
C16_PromptReflectsContext ==
    (turn.kind = "model" /\ turn.sys_prompt # NULL) =>
        /\ turn.getcwd # NULL
        /\ Deref(turn.getcwd) # NULL => env_ctx.cwd = Deref(Deref(turn.getcwd))
        /\ Deref(turn.sys_prompt) = PromptOf(env_ctx)

\* The quote at position i of a body is escaped: it is preceded, inside the
\* string that starts at position start, by an odd number of backslashes.
EscapedQuote(json, start, i) ==
    LET runs == {k \in 0..(i - start) : \A j \in (i - k)..(i - 1) : json[j] = BSLASH}
        longest == CHOOSE k \in runs : \A m \in runs : m <= k
    IN  longest % 2 = 1

\* The body has the marker and the opening quote, and no unescaped quote
\* closes the string before the end of the body.
Unterminated(json) ==
    /\ ContentStart(json) # 0
    /\ ~\E i \in ContentStart(json)..Len(json) :
           json[i] = QUOTE /\ ~EscapedQuote(json, ContentStart(json), i)

\* C17: a response whose text string is not closed yields no command:
\* nothing is presented at the gate and nothing is executed.
C17_NoPartialCommand ==
    (turn.response # NULL /\ Unterminated(Deref(turn.response))) =>
        /\ cmd = NULL
        /\ NoGate

\* extract_content of the running build: the results it can give
ExtractOf(json) ==
    IF build = "comgen2" THEN extract_content(json) ELSE extract_content_static(json)

\* C18: the text execute_command receives after Run is the command of this
\* turn: what extract_content gave for this turn's response buffer, as it
\* was printed, unchanged by the gate.
C18_RunReceivesPresented ==
    \A i \in 1..Len(turn.shell) :
        turn.shell[i].from = "model" =>
            /\ turn.action = "y"
            /\ turn.presented # NULL
            /\ turn.shell[i].cmd = Deref(turn.presented)
            /\ turn.presented = cmd
            /\ turn.response # NULL
            /\ turn.presented \in ExtractOf(Deref(turn.response))

C18_Witness ==
    /\ pc = "bottom"
    /\ failed
    /\ turn.shell = <<[cmd |-> <<"l", "s">>, from |-> "model"]>>
    /\ turn.reports[1].status = 0

\* C19: after a refresh-listing command whose listing command could not be
\* run, the warning was shown, the session goes on, and the listing of the
\* context is never a released value: later turns read valid data and the
\* process is not ended by it.
C19_FailedListingKeepsContextValid ==
    /\ (turn.kind = "ls" /\ turn.ls_runs = 0 /\ pc # "crashed") =>
           ("ls failed" \in turn.msgs /\ pc = "bottom")
    /\ ~ls_freed
    /\ pc # "crashed"

\* The entries of a directory up to entry n, separated by commas.
RECURSIVE JoinEntries(_, _)
JoinEntries(lines, n) ==
    IF n = 0 THEN <<>>
    ELSE IF n = 1 THEN lines[1]
    ELSE JoinEntries(lines, n - 1) \o <<",">> \o lines[n]

\* C20: the captured listing holds the first 50 entries at most, and it ends
\* with the marker ",..." exactly when the directory has more than 50
\* entries.
C20_MarkerIffTruncated ==
    fx.pc = "captured" =>
        LET n == Len(fx.dir)
            kept == JoinEntries(fx.dir, Min(n, LS_ENTRY_LIMIT))
        IN  Deref(fx.out) = IF n > LS_ENTRY_LIMIT THEN kept \o LS_MARKER ELSE kept
====
